---- MODULE Spec2Model ----
(***************************************************************************)
(* Rule-based loop refinement of rellic (lib/AST/LoopRefine.cpp) and the   *)
(* pass pipeline that drives it (GeneratePseudocode).  The AST is a tree   *)
(* of records; every rule is a matcher (its constructor and run callback)  *)
(* and a substitution (GetOrCreateSubstitution).                           *)
(***************************************************************************)
EXTENDS Naturals, Sequences, FiniteSets, TLC

VARIABLES pc, idx, changed, ast, prov, visits, hist, input, output, script

vars == <<pc, idx, changed, ast, prov, visits, hist, input, output, script>>

----------------------------------------------------------------------------
(* Bounds of the model.                                                    *)

\* Largest number of statements in the body of the input while(true) loop.
MaxLen == 3

\* Hard upper bound on the number of passes of one run of the pipeline.
MaxPasses == 40

----------------------------------------------------------------------------
(* AST nodes.  Expressions carry the identity of the IR comparison they    *)
(* were built from (id); a node built by CreateLNot is identified by its   *)
(* operand, which is negated at most once.                                 *)

NoStmt == [k |-> "none"]

BreakStmt == [k |-> "break"]

ExprStmt(n) == [k |-> "expr", n |-> n]

CreateCompoundStmt(ss) == [k |-> "comp", ss |-> ss]

CreateIf(c, t, e) == [k |-> "if", c |-> c, t |-> t, e |-> e]

CreateWhile(c, b) == [k |-> "while", c |-> c, b |-> b]

CreateDo(c, b) == [k |-> "do", c |-> c, b |-> b]

\* The integer literal 1 used as the condition of while(1).
TrueLit == [k |-> "lit", val |-> 1]

FalseLit == [k |-> "lit", val |-> 0]

\* The comparison v == 0 built from IR value id.
EqZero(v, id) == [k |-> "eq", v |-> v, id |-> id]

\* The comparison v != 0 derived from the node x.
NeZero(x) == [k |-> "ne", v |-> x.v, id |-> x.id]

CreateLNot(x) == [k |-> "lnot", x |-> x]

----------------------------------------------------------------------------
(* Sequence helpers.                                                       *)

Front(s) == SubSeq(s, 1, Len(s) - 1)

Tail1(s) == SubSeq(s, 2, Len(s))

\* The element of a one-element set.  A value that is used more than once
\* is bound over a one-element set, {f(x) : x \in {e}}, so that it is
\* computed once.
Only(S) == CHOOSE x \in S : TRUE

RECURSIVE Flatten(_)
Flatten(ss) == IF ss = <<>> THEN <<>> ELSE Head(ss) \o Flatten(Tail(ss))

\* Index of the first TRUE of a sequence of booleans, 0 when there is none.
FirstIdx(bs) ==
  IF \E i \in 1..Len(bs) : bs[i]
  THEN CHOOSE i \in 1..Len(bs) : bs[i] /\ \A j \in 1..(i - 1) : ~bs[j]
  ELSE 0

----------------------------------------------------------------------------
(* Tree structure seen by the AST matchers.                                *)

\* The child statements of a statement, in source order.
Children(s) ==
  CASE s.k = "comp" -> s.ss
    [] s.k = "if" -> IF s.e = NoStmt THEN <<s.t>> ELSE <<s.t, s.e>>
    [] s.k = "while" -> <<s.b>>
    [] s.k = "do" -> <<s.b>>
    [] OTHER -> <<>>

\* A statement with its child statements replaced by cs.
ReplaceChildren(s, cs) ==
  CASE s.k = "comp" -> CreateCompoundStmt(cs)
    [] s.k = "if" ->
         CreateIf(s.c, cs[1], IF s.e = NoStmt THEN NoStmt ELSE cs[2])
    [] s.k = "while" -> CreateWhile(s.c, cs[1])
    [] s.k = "do" -> CreateDo(s.c, cs[1])
    [] OTHER -> s

\* has(breakStmt())
HasBreakChild(s) == \E i \in 1..Len(Children(s)) : Children(s)[i].k = "break"

\* hasDescendant(breakStmt())
RECURSIVE has_break(_)
has_break(s) ==
  \E i \in 1..Len(Children(s)) :
     Children(s)[i].k = "break" \/ has_break(Children(s)[i])

\* compoundStmt(has(breakStmt()), statementCountIs(1))
comp_break(s) == s.k = "comp" /\ Len(s.ss) = 1 /\ HasBreakChild(s)

\* hasCondition(integerLiteral(equals(true)))
cond_true(s) == s.c = TrueLit

\* whileStmt(cond_true, hasBody(compoundStmt(...))): what all six rules ask of
\* the loop itself
IsTrueLoop(s) == s.k = "while" /\ cond_true(s) /\ s.b.k = "comp"

----------------------------------------------------------------------------
(* Provenance.                                                             *)

\* The new node `to` inherits the use-provenance of `from`.
CopyProvenance(from, to, map) ==
  IF from \in DOMAIN map THEN (to :> map[from]) @@ map ELSE map

----------------------------------------------------------------------------
(* WhileRule                                                               *)

\* ifStmt(hasThen(comp_break))
IsCompBreakIf(s) == s.k = "if" /\ comp_break(s.t)

\* has(ifStmt(stmt().bind("if"), ...)) binds the first matching child of the
\* body, 0 when it has none
FirstCompBreakIf(body) ==
  FirstIdx([i \in 1..Len(body.ss) |-> IsCompBreakIf(body.ss[i])])

\* WhileRule::run comparing the if with body_back(), as DoWhileRule does.
WhileRuleMatchBack(loop) ==
  /\ IsTrueLoop(loop)
  /\ FirstCompBreakIf(loop.b) # 0
  /\ FirstCompBreakIf(loop.b) = Len(loop.b.ss)

\* run(): body->body_front() == ifstmt
WhileRuleMatch(loop) ==
  /\ IsTrueLoop(loop)
  /\ FirstCompBreakIf(loop.b) = 1

\* WhileRule::GetOrCreateSubstitution without the push_back of the else-arm.
WhileRuleSubDropsElse(map, loop) ==
  LET comp == loop.b
      ifstmt == Head(comp.ss)
      new_cond == CreateLNot(ifstmt.c)
  IN [s |-> CreateWhile(new_cond, CreateCompoundStmt(Tail(comp.ss))),
      prov |-> CopyProvenance(ifstmt.c, new_cond, map),
      ub |-> FALSE]

\* WhileRule::GetOrCreateSubstitution without the call of CopyProvenance.
WhileRuleSubNoProvenance(map, loop) ==
  LET comp == loop.b
      ifstmt == Head(comp.ss)
      new_body == (IF ifstmt.e # NoStmt THEN <<ifstmt.e>> ELSE <<>>)
                     \o Tail1(comp.ss)
      new_cond == CreateLNot(ifstmt.c)
  IN [s |-> CreateWhile(new_cond, CreateCompoundStmt(new_body)),
      prov |-> map,
      ub |-> FALSE]

WhileRuleSub(map, loop) ==
  LET comp == loop.b
      ifstmt == Head(comp.ss)
      cond == ifstmt.c
      new_body == (IF ifstmt.e # NoStmt THEN <<ifstmt.e>> ELSE <<>>)
                     \o Tail1(comp.ss)
      new_cond == CreateLNot(cond)
  IN [s |-> CreateWhile(new_cond, CreateCompoundStmt(new_body)),
      prov |-> CopyProvenance(cond, new_cond, map),
      ub |-> FALSE]

----------------------------------------------------------------------------
(* DoWhileRule                                                             *)

\* run(): body->body_back() == ifstmt, for the first matching child
DoWhileRuleMatch(loop) ==
  /\ IsTrueLoop(loop)
  /\ FirstCompBreakIf(loop.b) # 0
  /\ FirstCompBreakIf(loop.b) = Len(loop.b.ss)

DoWhileRuleSub(map, loop) ==
  LET comp == loop.b
      ifstmt == comp.ss[Len(comp.ss)]
      cond == ifstmt.c
      new_body == Front(comp.ss)
                     \o (IF ifstmt.e # NoStmt THEN <<ifstmt.e>> ELSE <<>>)
      cond_inv == CreateLNot(cond)
  IN [s |-> CreateDo(cond_inv, CreateCompoundStmt(new_body)),
      prov |-> CopyProvenance(cond, cond_inv, map),
      ub |-> FALSE]

----------------------------------------------------------------------------
(* NestedDoWhileRule                                                       *)

\* ifStmt(hasThen(has(breakStmt())))
IsBreakIf(s) == s.k = "if" /\ HasBreakChild(s.t)

\* findAll(...) below a statement: the statement itself, then its descendants
\* in pre-order.  Each match is reported as at, when it is the statement
\* itself, and as 0 when it lies deeper.
RECURSIVE FindAllBreakIfs(_, _)
FindAllBreakIfs(s, at) ==
  Only({(IF IsBreakIf(s) THEN <<at>> ELSE <<>>) \o Flatten(below) :
          below \in {[i \in 1..Len(Children(s)) |->
                        FindAllBreakIfs(Children(s)[i], 0)]}})

\* The matches of findAll in the body of the loop, in the order run() sees
\* them: the index of a match that is a statement of the body, 0 otherwise.
NestedDoWhileMatches(body) ==
  Only({Flatten(ms) :
          ms \in {[i \in 1..Len(body.ss) |-> FindAllBreakIfs(body.ss[i], i)]}})

\* NestedDoWhileRule::run keeping the match when a further match arrives.
NestedDoWhileRunOneKeeps(m, back, st) ==
  [matched |-> TRUE,
   match |-> IF ~st.matched THEN (IF m = back THEN TRUE ELSE st.match)
             ELSE st.match]

\* run() on one match m: the first match is kept when it is body_back(),
\* any further match clears it.  st is [matched, match].
NestedDoWhileRunOne(m, back, st) ==
  [matched |-> TRUE,
   match |-> IF ~st.matched THEN (IF m = back THEN TRUE ELSE st.match)
             ELSE FALSE]

\* run(), once per match, in the order of the matches
RECURSIVE NestedDoWhileRun(_, _, _)
NestedDoWhileRun(ms, back, st) ==
  IF ms = <<>> THEN st
  ELSE Only({NestedDoWhileRun(Tail(ms), back, n) :
               n \in {NestedDoWhileRunOne(Head(ms), back, st)}})

NestedDoWhileRuleMatch(loop) ==
  /\ IsTrueLoop(loop)
  /\ \E ms \in {NestedDoWhileMatches(loop.b)} :
        NestedDoWhileRun(ms, Len(loop.b.ss),
                         [matched |-> FALSE, match |-> FALSE]).match

\* NestedDoWhileRule::GetOrCreateSubstitution placing the whole tail if,
\* not its then-branch, after the do-while.
NestedDoWhileRuleSubKeepsIf(map, loop) ==
  LET comp == loop.b
      cond == comp.ss[Len(comp.ss)]
      do_body == Front(comp.ss)
                    \o (IF cond.e # NoStmt THEN <<cond.e>> ELSE <<>>)
      do_cond == CreateLNot(cond.c)
      do_stmt == CreateDo(do_cond, CreateCompoundStmt(do_body))
      while_body == <<do_stmt, cond>>
  IN [s |-> CreateWhile(loop.c, CreateCompoundStmt(while_body)),
      prov |-> CopyProvenance(cond.c, do_cond, map),
      ub |-> FALSE]

\* NestedDoWhileRule::GetOrCreateSubstitution guarding the do-while by the
\* condition of the tail if, not by its negation.
NestedDoWhileRuleSubUnnegated(map, loop) ==
  LET comp == loop.b
      cond == comp.ss[Len(comp.ss)]
      do_body == Front(comp.ss)
                    \o (IF cond.e # NoStmt THEN <<cond.e>> ELSE <<>>)
      do_stmt == CreateDo(cond.c, CreateCompoundStmt(do_body))
      while_body == <<do_stmt, cond.t>>
  IN [s |-> CreateWhile(loop.c, CreateCompoundStmt(while_body)),
      prov |-> map,
      ub |-> FALSE]

NestedDoWhileRuleSub(map, loop) ==
  LET comp == loop.b
      cond == comp.ss[Len(comp.ss)]
      do_body == Front(comp.ss)
                    \o (IF cond.e # NoStmt THEN <<cond.e>> ELSE <<>>)
      do_cond == CreateLNot(cond.c)
      do_stmt == CreateDo(do_cond, CreateCompoundStmt(do_body))
      while_body == <<do_stmt, cond.t>>
  IN [s |-> CreateWhile(loop.c, CreateCompoundStmt(while_body)),
      prov |-> CopyProvenance(cond.c, do_cond, map),
      ub |-> FALSE]

----------------------------------------------------------------------------
(* LoopToSeq                                                               *)

\* anyOf(ifStmt(hasThen(has(breakStmt())), hasElse(has(breakStmt()))),
\*       breakStmt())
IsExitStmt(s) ==
  \/ s.k = "if" /\ HasBreakChild(s.t) /\ s.e # NoStmt /\ HasBreakChild(s.e)
  \/ s.k = "break"

\* hasAnySubstatement binds the first matching statement of the body; run():
\* a bound if must be body_back(), a break matches wherever it stands
LoopToSeqMatch(loop) ==
  /\ IsTrueLoop(loop)
  /\ LET i == FirstIdx([j \in 1..Len(loop.b.ss) |-> IsExitStmt(loop.b.ss[j])])
     IN /\ i # 0
        /\ loop.b.ss[i].k = "if" => i = Len(loop.b.ss)

\* The statements of a branch body up to its first break.
RECURSIVE UntilBreak(_)
UntilBreak(ss) ==
  IF ss = <<>> \/ Head(ss).k = "break" THEN <<>>
  ELSE <<Head(ss)>> \o UntilBreak(Tail(ss))

\* for (auto &branch : branches): a branch that is no compound statement
\* becomes an empty compound statement
LoopToSeqBranch(branch) ==
  CreateCompoundStmt(IF branch.k = "comp" THEN UntilBreak(branch.ss) ELSE <<>>)

\* dyn_cast of the null else-arm of a tail if is undefined; ub marks it, and
\* the substitution given is the one of a build that reads null as "no
\* compound statement".
LoopToSeqSub(map, loop) ==
  LET loop_body == loop.b
      back == loop_body.ss[Len(loop_body.ss)]
      new_body ==
        IF back.k = "if"
        THEN Front(loop_body.ss)
               \o <<CreateIf(back.c, LoopToSeqBranch(back.t),
                             LoopToSeqBranch(back.e))>>
        ELSE Front(loop_body.ss)
  IN [s |-> CreateCompoundStmt(new_body),
      prov |-> map,
      ub |-> back.k = "if" /\ back.e = NoStmt]

----------------------------------------------------------------------------
(* CondToSeqRule                                                           *)

\* compoundStmt(has(ifStmt(hasThen(unless(has_break)), hasElse(has_break))),
\*              statementCountIs(1))
CondToSeqRuleMatch(loop) ==
  /\ IsTrueLoop(loop)
  /\ Len(loop.b.ss) = 1
  /\ LET s == loop.b.ss[1]
     IN s.k = "if" /\ ~has_break(s.t) /\ s.e # NoStmt /\ has_break(s.e)

\* CondToSeqRule::GetOrCreateSubstitution guarding the inner loop with the
\* negated condition, as CondToSeqNegRule does.
CondToSeqRuleSubNegated(map, loop) ==
  LET body == loop.b
      ifstmt == Head(body.ss)
      cond == CreateLNot(ifstmt.c)
      inner_loop == CreateWhile(cond, ifstmt.t)
      new_body == <<inner_loop>>
                     \o (IF ifstmt.e.k = "comp" THEN ifstmt.e.ss
                         ELSE <<ifstmt.e>>)
  IN [s |-> CreateWhile(loop.c, CreateCompoundStmt(new_body)),
      prov |-> CopyProvenance(ifstmt.c, cond, map),
      ub |-> FALSE]

CondToSeqRuleSub(map, loop) ==
  LET body == loop.b
      ifstmt == Head(body.ss)
      inner_loop == CreateWhile(ifstmt.c, ifstmt.t)
      new_body == <<inner_loop>>
                     \o (IF ifstmt.e.k = "comp" THEN ifstmt.e.ss
                         ELSE <<ifstmt.e>>)
  IN [s |-> CreateWhile(loop.c, CreateCompoundStmt(new_body)),
      prov |-> map,
      ub |-> FALSE]

----------------------------------------------------------------------------
(* CondToSeqNegRule                                                        *)

\* compoundStmt(has(ifStmt(hasThen(has_break), hasElse(unless(has_break)))),
\*              statementCountIs(1))
CondToSeqNegRuleMatch(loop) ==
  /\ IsTrueLoop(loop)
  /\ Len(loop.b.ss) = 1
  /\ LET s == loop.b.ss[1]
     IN s.k = "if" /\ has_break(s.t) /\ s.e # NoStmt /\ ~has_break(s.e)

\* CondToSeqNegRule::GetOrCreateSubstitution guarding the inner loop by the
\* condition of the if, not by its negation.
CondToSeqNegRuleSubUnnegated(map, loop) ==
  LET body == loop.b
      ifstmt == Head(body.ss)
      inner_loop == CreateWhile(ifstmt.c, ifstmt.e)
      new_body == <<inner_loop>>
                     \o (IF ifstmt.t.k = "comp" THEN ifstmt.t.ss
                         ELSE <<ifstmt.t>>)
  IN [s |-> CreateWhile(loop.c, CreateCompoundStmt(new_body)),
      prov |-> map,
      ub |-> FALSE]

CondToSeqNegRuleSub(map, loop) ==
  LET body == loop.b
      ifstmt == Head(body.ss)
      cond == CreateLNot(ifstmt.c)
      inner_loop == CreateWhile(cond, ifstmt.e)
      new_body == <<inner_loop>>
                     \o (IF ifstmt.t.k = "comp" THEN ifstmt.t.ss
                         ELSE <<ifstmt.t>>)
  IN [s |-> CreateWhile(loop.c, CreateCompoundStmt(new_body)),
      prov |-> CopyProvenance(ifstmt.c, cond, map),
      ub |-> FALSE]

----------------------------------------------------------------------------
(* LoopRefine::VisitWhileStmt                                              *)

\* The rule vector with LoopToSeq added before NestedDoWhileRule.
RulesLoopToSeqFirst ==
  <<"CondToSeqRule", "CondToSeqNegRule", "LoopToSeq", "NestedDoWhileRule",
    "WhileRule", "DoWhileRule">>

\* The rules in the order VisitWhileStmt adds them to its vector.
Rules ==
  <<"CondToSeqRule", "CondToSeqNegRule", "NestedDoWhileRule", "LoopToSeq",
    "WhileRule", "DoWhileRule">>

\* operator bool of a rule after the match finder ran on the loop
RuleMatch(r, loop) ==
  CASE r = "CondToSeqRule" -> CondToSeqRuleMatch(loop)
    [] r = "CondToSeqNegRule" -> CondToSeqNegRuleMatch(loop)
    [] r = "NestedDoWhileRule" -> NestedDoWhileRuleMatch(loop)
    [] r = "LoopToSeq" -> LoopToSeqMatch(loop)
    [] r = "WhileRule" -> WhileRuleMatch(loop)
    [] r = "DoWhileRule" -> DoWhileRuleMatch(loop)

\* GetOrCreateSubstitution of a rule
RuleSub(r, map, loop) ==
  CASE r = "CondToSeqRule" -> CondToSeqRuleSub(map, loop)
    [] r = "CondToSeqNegRule" -> CondToSeqNegRuleSub(map, loop)
    [] r = "NestedDoWhileRule" -> NestedDoWhileRuleSub(map, loop)
    [] r = "LoopToSeq" -> LoopToSeqSub(map, loop)
    [] r = "WhileRule" -> WhileRuleSub(map, loop)
    [] r = "DoWhileRule" -> DoWhileRuleSub(map, loop)

\* The substitution a rule made, with the name of the rule.
Applied(rule, sub) ==
  [s |-> sub.s, prov |-> sub.prov, ub |-> sub.ub, rule |-> rule]

\* The substitution of the first rule of the list that matches, the
\* statement itself when none does.
RECURSIVE ApplyFirstMatchingRule(_, _, _)
ApplyFirstMatchingRule(map, stmt, rules) ==
  IF rules = <<>>
  THEN [s |-> stmt, prov |-> map, ub |-> FALSE, rule |-> "none"]
  ELSE IF RuleMatch(Head(rules), stmt)
       THEN Only({Applied(Head(rules), sub) :
                    sub \in {RuleSub(Head(rules), map, stmt)}})
       ELSE ApplyFirstMatchingRule(map, stmt, Tail(rules))

\* if (sub != loop) substitutions[loop] = sub: the loop, the rule that
\* fired, the substitution and whether it was entered into `substitutions`.
Substitute(loop, r) ==
  [loop |-> loop, rule |-> r.rule, sub |-> r.s, prov |-> r.prov,
   ub |-> r.ub, recorded |-> r.s # loop]

\* One visit of a while statement.
VisitWhileStmt(map, loop) ==
  Only({Substitute(loop, r) : r \in {ApplyFirstMatchingRule(map, loop, Rules)}})

----------------------------------------------------------------------------
(* TransformVisitor: post-order traversal.  The children of a statement    *)
(* are visited first and replaced by their substitutions, then the         *)
(* statement itself is visited.  st is [prov, visits].                     *)

RECURSIVE Traverse(_, _)
RECURSIVE TraverseSeq(_, _)

\* The visited statement h in front of the visited statements t.
Visited1(h, t) == [ss |-> <<h.s>> \o t.ss, st |-> t.st]

\* The statements after the first, visited after the first one h.
TraverseRest(ss, h) ==
  Only({Visited1(h, t) : t \in {TraverseSeq(Tail(ss), h.st)}})

TraverseSeq(ss, st) ==
  IF ss = <<>> THEN [ss |-> <<>>, st |-> st]
  ELSE Only({TraverseRest(ss, h) : h \in {Traverse(Head(ss), st)}})

\* The visit v of a while statement: its substitution stands for it, and
\* the visit is logged.
AfterVisit(st, v) ==
  [s |-> IF v.recorded THEN v.sub ELSE v.loop,
   st |-> [prov |-> v.prov,
           visits |-> Append(st.visits,
                             [loop |-> v.loop, rule |-> v.rule,
                              sub |-> v.sub, ub |-> v.ub,
                              recorded |-> v.recorded])]]

\* A statement after its children r were visited: a while statement is
\* visited itself, with its children already replaced.
AfterChildren(s, r) ==
  IF s.k = "while"
  THEN Only({AfterVisit(r.st, v) :
               v \in {VisitWhileStmt(r.st.prov, ReplaceChildren(s, r.ss))}})
  ELSE [s |-> ReplaceChildren(s, r.ss), st |-> r.st]

Traverse(s, st) ==
  Only({AfterChildren(s, r) : r \in {TraverseSeq(Children(s), st)}})

\* LoopRefine::RunImpl: one traversal of the translation unit
LoopRefineRun(root, map) == Traverse(root, [prov |-> map, visits |-> <<>>])

----------------------------------------------------------------------------
(* The other passes of the pipeline.                                       *)

\* An expression without the identities of its nodes: what two guards are
\* compared by.
RECURSIVE Shape(_)
Shape(x) ==
  CASE x.k = "lnot" -> [k |-> "lnot", x |-> Shape(x.x)]
    [] x.k = "lit" -> x
    [] OTHER -> [k |-> x.k, v |-> x.v]

\* The guard b is the negation of the guard a.
Negates(a, b) ==
  \/ Shape(b) = Shape(CreateLNot(a))
  \/ Shape(a) = Shape(CreateLNot(b))
  \/ a.k = "eq" /\ b.k = "ne" /\ a.v = b.v
  \/ a.k = "ne" /\ b.k = "eq" /\ a.v = b.v

\* The statements of a compound statement, a statement alone otherwise.
Splice(s) == IF s.k = "comp" THEN s.ss ELSE <<s>>

\* Dead-statement elimination: if (true) T else E is T, if (false) T else E
\* is E, and empty compound statements inside compound statements collapse.
DeadStmt(m) ==
  CASE m.k = "if" /\ m.c = TrueLit -> m.t
    [] m.k = "if" /\ m.c = FalseLit ->
         IF m.e = NoStmt THEN CreateCompoundStmt(<<>>) ELSE m.e
    [] m.k = "comp" ->
         CreateCompoundStmt(
           SelectSeq(m.ss, LAMBDA c : c # CreateCompoundStmt(<<>>)))
    [] OTHER -> m

RECURSIVE DeadStmtElim(_)
DeadStmtElim(s) ==
  Only({DeadStmt(m) :
          m \in {ReplaceChildren(s, [i \in 1..Len(Children(s)) |->
                                      DeadStmtElim(Children(s)[i])])}})

\* The simplifier on one guard: an equivalent guard without double negation.
RECURSIVE Simplify(_)
Simplify(x) ==
  IF x.k = "lnot"
  THEN (IF x.x.k = "lnot" THEN Simplify(x.x.x) ELSE CreateLNot(Simplify(x.x)))
  ELSE x

\* The guard of a statement simplified.
SimplifyGuard(m) ==
  IF m.k \in {"if", "while", "do"} THEN [m EXCEPT !.c = Simplify(m.c)]
  ELSE m

RECURSIVE Z3CondSimplify(_)
Z3CondSimplify(s) ==
  Only({SimplifyGuard(m) :
          m \in {ReplaceChildren(s, [i \in 1..Len(Children(s)) |->
                                      Z3CondSimplify(Children(s)[i])])}})

\* The guard of an if directly inside an arm, simplified under the guard of
\* the enclosing if (its negation in the else-arm).
AssumeIn(arm, a, holds) ==
  IF arm.k # "comp" THEN arm
  ELSE CreateCompoundStmt(
         [i \in 1..Len(arm.ss) |->
            LET c == arm.ss[i]
            IN IF c.k = "if" /\ Shape(c.c) = Shape(a)
               THEN [c EXCEPT !.c = IF holds THEN TrueLit ELSE FalseLit]
               ELSE IF c.k = "if" /\ Negates(a, c.c)
               THEN [c EXCEPT !.c = IF holds THEN FalseLit ELSE TrueLit]
               ELSE c])

\* The guard of an if propagated into its arms.
PropagateGuard(m) ==
  IF m.k = "if" /\ m.c.k # "lit"
  THEN CreateIf(m.c, AssumeIn(m.t, m.c, TRUE),
                IF m.e = NoStmt THEN NoStmt ELSE AssumeIn(m.e, m.c, FALSE))
  ELSE m

RECURSIVE NestedCondProp(_)
NestedCondProp(s) ==
  Only({PropagateGuard(m) :
          m \in {ReplaceChildren(s, [i \in 1..Len(Children(s)) |->
                                      NestedCondProp(Children(s)[i])])}})

\* if (A) S immediately followed by if (A) T becomes if (A) { S; T }.
RECURSIVE MergeIfs(_)
MergeIfs(ss) ==
  IF Len(ss) < 2 THEN ss
  ELSE LET a == ss[1]
           b == ss[2]
       IN IF /\ a.k = "if" /\ b.k = "if" /\ a.e = NoStmt /\ b.e = NoStmt
             /\ Shape(a.c) = Shape(b.c)
          THEN MergeIfs(<<CreateIf(a.c,
                                   CreateCompoundStmt(Splice(a.t) \o Splice(b.t)),
                                   NoStmt)>>
                          \o SubSeq(ss, 3, Len(ss)))
          ELSE <<a>> \o MergeIfs(Tail(ss))

\* { { S1; S2 } S3 } becomes { S1; S2; S3 }, and adjacent ifs with the same
\* guard are joined.
CombineScopes(m) ==
  IF m.k = "comp"
  THEN CreateCompoundStmt(
         MergeIfs(Flatten([i \in 1..Len(m.ss) |-> Splice(m.ss[i])])))
  ELSE m

\* Nested-scope combination, children first.
RECURSIVE NestedScopeCombiner(_)
NestedScopeCombiner(s) ==
  Only({CombineScopes(m) :
          m \in {ReplaceChildren(s, [i \in 1..Len(Children(s)) |->
                                      NestedScopeCombiner(Children(s)[i])])}})

\* if (C1) A immediately followed by if (C2) B, where C2 is the negation of
\* C1, becomes if (C1) A else B; the leftmost pair first.
RECURSIVE RefineIfs(_)
RefineIfs(ss) ==
  IF Len(ss) < 2 THEN ss
  ELSE LET a == ss[1]
           b == ss[2]
       IN IF /\ a.k = "if" /\ b.k = "if" /\ a.e = NoStmt /\ b.e = NoStmt
             /\ Negates(a.c, b.c)
          THEN <<CreateIf(a.c, a.t, b.t)>> \o RefineIfs(SubSeq(ss, 3, Len(ss)))
          ELSE <<a>> \o RefineIfs(Tail(ss))

\* The adjacent ifs of a compound statement refined.
RefineCompound(m) ==
  IF m.k = "comp" THEN CreateCompoundStmt(RefineIfs(m.ss)) ELSE m

RECURSIVE CondBasedRefine(_)
CondBasedRefine(s) ==
  Only({RefineCompound(m) :
          m \in {ReplaceChildren(s, [i \in 1..Len(Children(s)) |->
                                      CondBasedRefine(Children(s)[i])])}})

\* The guards of the ifs and loops of a statement, in pre-order.
RECURSIVE Guards(_)
Guards(s) ==
  Only({(IF s.k \in {"if", "while", "do"} THEN <<s.c>> ELSE <<>>)
          \o Flatten(below) :
          below \in {[i \in 1..Len(Children(s)) |-> Guards(Children(s)[i])]}})

\* The negation of the rewritten expression y.
CombineLNot(y) ==
  CASE y.k = "lnot" -> y.x
    [] y.k = "eq" -> NeZero(y)
    [] y.k = "lit" -> IF y = TrueLit THEN FalseLit ELSE TrueLit
    [] OTHER -> CreateLNot(y)

\* Peephole rewriting of an expression: !(!x) is x, !(a == b) is a != b,
\* and the negation of a constant is folded.
RECURSIVE CombineExpr(_)
CombineExpr(x) ==
  IF x.k # "lnot" THEN x
  ELSE Only({CombineLNot(y) : y \in {CombineExpr(x.x)}})

\* Peephole rewriting of one statement: if (C) { } else E is if (!C) E, and
\* a compound statement that is the only statement of a compound statement
\* is collapsed into it.
CombineStmt(m) ==
  CASE m.k = "if" ->
         IF m.t = CreateCompoundStmt(<<>>) /\ m.e # NoStmt
         THEN CreateIf(CombineExpr(CreateLNot(m.c)), m.e, NoStmt)
         ELSE [m EXCEPT !.c = CombineExpr(m.c)]
    [] m.k \in {"while", "do"} -> [m EXCEPT !.c = CombineExpr(m.c)]
    [] m.k = "comp" ->
         IF Len(m.ss) = 1 /\ m.ss[1].k = "comp" THEN m.ss[1] ELSE m
    [] OTHER -> m

\* Peephole rewriting of statements, children first.
RECURSIVE StmtCombine(_)
StmtCombine(s) ==
  Only({CombineStmt(m) :
          m \in {ReplaceChildren(s, [i \in 1..Len(Children(s)) |->
                                      StmtCombine(Children(s)[i])])}})

\* The node a guard derived by StmtCombine takes its provenance from.
SourceOf(g) ==
  CASE g.k = "lnot" -> g.x
    [] g.k = "ne" -> EqZero(g.v, g.id)
    [] OTHER -> g

\* Every guard of gs that has no entry inherits the entry of its source.
Inherit(g, map) ==
  IF g \in DOMAIN map THEN map ELSE CopyProvenance(SourceOf(g), g, map)

RECURSIVE InheritAll(_, _)
InheritAll(gs, map) ==
  IF gs = <<>> THEN map
  ELSE Only({InheritAll(Tail(gs), m) : m \in {Inherit(Head(gs), map)}})

----------------------------------------------------------------------------
(* The ASTs handed to refinement: a function body holding one while(true)  *)
(* loop of 1..MaxLen statements.  The statement at position i is built     *)
(* from nodes of its own, so no two nodes of an AST are the same node.     *)

\* The guard of the if at position i.  The first two positions compare the
\* same IR value, so their ifs can be joined.
Guard(i) == EqZero(IF i <= 2 THEN "x" ELSE "y", 2 * i)

\* The guard of an if nested in the statement at position i.
InnerGuard(i) == EqZero("z", 2 * i + 1)

Blk(ss) == CreateCompoundStmt(ss)

Items(i) ==
  LET p == ExprStmt(<<i, 0>>)
      t == ExprStmt(<<i, 1>>)
      e == ExprStmt(<<i, 2>>)
      brk == Blk(<<BreakStmt>>)
  IN { p,
       BreakStmt,
       CreateIf(Guard(i), brk, NoStmt),
       CreateIf(Guard(i), brk, Blk(<<e>>)),
       CreateIf(Guard(i), Blk(<<t, BreakStmt>>), Blk(<<e, BreakStmt>>)),
       CreateIf(Guard(i), Blk(<<t>>), brk),
       CreateIf(Guard(i), Blk(<<t>>), NoStmt),
       CreateIf(Guard(i), Blk(<<t, BreakStmt>>), NoStmt),
       CreateIf(Guard(i),
                Blk(<<CreateIf(InnerGuard(i), brk, NoStmt), BreakStmt>>), brk),
       CreateWhile(TrueLit, Blk(<<CreateIf(InnerGuard(i), brk, NoStmt), t>>)) }

RECURSIVE Bodies(_)
Bodies(n) ==
  IF n = 0 THEN {<<>>}
  ELSE {Append(b, x) : b \in Bodies(n - 1), x \in Items(n)}

Inputs ==
  {Blk(<<CreateWhile(TrueLit, Blk(b))>>) :
     b \in UNION {Bodies(n) : n \in 1..MaxLen}}

\* Every guard built by the structuralizer has a use-provenance entry: the
\* IR value it was built from.
InitialProvenance(root) ==
  LET gs == Guards(root)
      S == {gs[i] : i \in 1..Len(gs)} \ {TrueLit}
  IN [g \in S |-> g.id]

----------------------------------------------------------------------------
(* GeneratePseudocode: four pass managers, then the printer.               *)

Managers ==
  [ast |-> <<"GenerateAST", "DeadStmtElim">>,
   cbr |-> <<"Z3CondSimplify", "NestedCondProp", "NestedScopeCombiner",
             "CondBasedRefine">>,
   loop |-> <<"LoopRefine", "NestedScopeCombiner">>,
   fin |-> <<"Z3CondSimplify", "NestedCondProp", "NestedScopeCombiner",
             "StmtCombine">>]

\* The pass the running manager runs next, "" when its run is over.
NextPass ==
  IF pc \in DOMAIN Managers /\ idx <= Len(Managers[pc])
  THEN Managers[pc][idx] ELSE ""

Init ==
  /\ pc = "ast"
  /\ idx = 1
  /\ changed = FALSE
  /\ ast = NoStmt
  /\ prov = <<>>
  /\ visits = <<>>
  /\ hist = <<>>
  /\ input = NoStmt
  /\ output = NoStmt
  /\ script = [at |-> "off"]

\* A pass has run and left the AST as new.
Ran(name, new, ch) ==
  /\ Len(hist) < MaxPasses
  /\ ast' = new
  /\ changed' = (changed \/ ch)
  /\ idx' = idx + 1
  /\ hist' = Append(hist, <<pc, name, ch>>)
  /\ UNCHANGED <<pc, output, script>>

GenerateAST ==
  /\ NextPass = "GenerateAST"
  /\ \E root \in Inputs :
        /\ Ran("GenerateAST", root, TRUE)
        /\ prov' = InitialProvenance(root)
        /\ input' = root
  /\ UNCHANGED visits

\* The passes that rewrite the AST and leave the provenance map alone.
RunDeadStmtElim ==
  /\ NextPass = "DeadStmtElim"
  /\ \E new \in {DeadStmtElim(ast)} : Ran("DeadStmtElim", new, new # ast)
  /\ UNCHANGED <<prov, visits, input>>

RunZ3CondSimplify ==
  /\ NextPass = "Z3CondSimplify"
  /\ \E new \in {Z3CondSimplify(ast)} : Ran("Z3CondSimplify", new, new # ast)
  /\ UNCHANGED <<prov, visits, input>>

RunNestedCondProp ==
  /\ NextPass = "NestedCondProp"
  /\ \E new \in {NestedCondProp(ast)} : Ran("NestedCondProp", new, new # ast)
  /\ UNCHANGED <<prov, visits, input>>

RunNestedScopeCombiner ==
  /\ NextPass = "NestedScopeCombiner"
  /\ \E new \in {NestedScopeCombiner(ast)} :
        Ran("NestedScopeCombiner", new, new # ast)
  /\ UNCHANGED <<prov, visits, input>>

RunCondBasedRefine ==
  /\ NextPass = "CondBasedRefine"
  /\ \E new \in {CondBasedRefine(ast)} : Ran("CondBasedRefine", new, new # ast)
  /\ UNCHANGED <<prov, visits, input>>

RunStmtCombine ==
  /\ NextPass = "StmtCombine"
  /\ \E new \in {StmtCombine(ast)} :
        /\ Ran("StmtCombine", new, new # ast)
        /\ \E gs \in {Guards(new)} : prov' = InheritAll(gs, prov)
  /\ UNCHANGED <<visits, input>>

\* The loop-refinement pass.  Where a substitution ran into the undefined
\* dyn_cast, the build either stops there or goes on with the substitution.
LoopRefineRan(r) ==
  \/ /\ Ran("LoopRefine", r.s, r.s # ast)
     /\ prov' = r.st.prov
     /\ visits' = r.st.visits
     /\ UNCHANGED input
  \/ /\ \E i \in 1..Len(r.st.visits) : r.st.visits[i].ub
     /\ pc' = "abort"
     /\ UNCHANGED <<idx, changed, ast, prov, visits, hist, input, output, script>>

RunLoopRefine ==
  /\ NextPass = "LoopRefine"
  /\ \E r \in {LoopRefineRun(ast, prov)} : LoopRefineRan(r)

\* ast.run(module): the first manager runs once.
AstDone ==
  /\ pc = "ast" /\ NextPass = ""
  /\ pc' = "cbr" /\ idx' = 1 /\ changed' = FALSE
  /\ UNCHANGED <<ast, prov, visits, hist, input, output, script>>

\* while (cbr.run(module)) ; : run the manager again after a run that
\* changed the module, go on otherwise
CbrAgain ==
  /\ pc = "cbr" /\ NextPass = "" /\ changed
  /\ idx' = 1 /\ changed' = FALSE
  /\ UNCHANGED <<pc, ast, prov, visits, hist, input, output, script>>

\* The driver leaving the CBR phase after a run that changed the module:
\* while (!cbr.run(module)) ;
CbrExitOnChange ==
  /\ pc = "cbr" /\ NextPass = "" /\ changed
  /\ pc' = "loop" /\ idx' = 1 /\ changed' = FALSE
  /\ UNCHANGED <<ast, prov, visits, hist, input, output, script>>

CbrExit ==
  /\ pc = "cbr" /\ NextPass = "" /\ ~changed
  /\ pc' = "loop" /\ idx' = 1 /\ changed' = FALSE
  /\ UNCHANGED <<ast, prov, visits, hist, input, output, script>>

\* The driver running the loop manager once: loop.run(module);
LoopAgainExits ==
  /\ pc = "loop" /\ NextPass = "" /\ changed
  /\ pc' = "fin" /\ idx' = 1 /\ changed' = FALSE
  /\ UNCHANGED <<ast, prov, visits, hist, input, output, script>>

\* while (loop.run(module)) ;
LoopAgain ==
  /\ pc = "loop" /\ NextPass = "" /\ changed
  /\ idx' = 1 /\ changed' = FALSE
  /\ UNCHANGED <<pc, ast, prov, visits, hist, input, output, script>>

\* The driver leaving the loop phase after a run that changed the module
\* only: while (!loop.run(module)) ;
LoopExitOnChange ==
  /\ pc = "loop" /\ NextPass = "" /\ changed
  /\ pc' = "fin" /\ idx' = 1 /\ changed' = FALSE
  /\ UNCHANGED <<ast, prov, visits, hist, input, output, script>>

LoopExit ==
  /\ pc = "loop" /\ NextPass = "" /\ ~changed
  /\ pc' = "fin" /\ idx' = 1 /\ changed' = FALSE
  /\ UNCHANGED <<ast, prov, visits, hist, input, output, script>>

\* fin.run(module): the last manager runs once.
FinDone ==
  /\ pc = "fin" /\ NextPass = ""
  /\ pc' = "print" /\ idx' = 1 /\ changed' = FALSE
  /\ UNCHANGED <<ast, prov, visits, hist, input, output, script>>

\* ast_ctx.getTranslationUnitDecl()->print(output)
PrintAST ==
  /\ pc = "print"
  /\ output' = ast
  /\ pc' = "done"
  /\ UNCHANGED <<idx, changed, ast, prov, visits, hist, input, script>>

Next ==
  \/ GenerateAST
  \/ RunDeadStmtElim
  \/ RunZ3CondSimplify
  \/ RunNestedCondProp
  \/ RunNestedScopeCombiner
  \/ RunCondBasedRefine
  \/ RunLoopRefine
  \/ RunStmtCombine
  \/ AstDone
  \/ CbrAgain
  \/ CbrExit
  \/ LoopAgain
  \/ LoopExit
  \/ FinDone
  \/ PrintAST

Spec == Init /\ [][Next]_vars

\* The pipeline is one sequential thread: it takes its next step whenever
\* it has one.
FairSpec == Spec /\ WF_vars(Next)

----------------------------------------------------------------------------
(* Helpers of the properties.                                              *)

\* The visits of the last loop-refinement pass, as a set.
Visited == {visits[i] : i \in 1..Len(visits)}

\* The scenario whose loop body is b.
Scenario(b) == Blk(<<CreateWhile(TrueLit, Blk(b))>>)

\* The while and do statements inside a statement, itself included.
RECURSIVE LoopsOf(_)
LoopsOf(s) ==
  (IF s.k \in {"while", "do"} THEN {s} ELSE {})
    \cup UNION {LoopsOf(Children(s)[i]) : i \in 1..Len(Children(s))}

\* The sum of a sequence of numbers.
RECURSIVE Sum(_)
Sum(ns) == IF ns = <<>> THEN 0 ELSE Head(ns) + Sum(Tail(ns))

----------------------------------------------------------------------------
(* C1: rule order.                                                         *)

\* The rule the order CondToSeq, CondToSeqNeg, NestedDoWhile, LoopToSeq,
\* WhileRule, DoWhileRule selects for a loop.
FirstInOrder(loop) ==
  IF CondToSeqRuleMatch(loop) THEN "CondToSeqRule"
  ELSE IF CondToSeqNegRuleMatch(loop) THEN "CondToSeqNegRule"
  ELSE IF NestedDoWhileRuleMatch(loop) THEN "NestedDoWhileRule"
  ELSE IF LoopToSeqMatch(loop) THEN "LoopToSeq"
  ELSE IF WhileRuleMatch(loop) THEN "WhileRule"
  ELSE IF DoWhileRuleMatch(loop) THEN "DoWhileRule"
  ELSE "none"

\* The rules that match a loop.
Matching(loop) == {r \in {Rules[i] : i \in 1..Len(Rules)} : RuleMatch(r, loop)}

\* C1: for every while(true) loop the pass visited, the substitution
\* applied is the one of the first rule, in the order CondToSeq,
\* CondToSeqNeg, NestedDoWhile, LoopToSeq, WhileRule, DoWhileRule, that
\* matches the loop, whatever rules match after it; a loop no rule matches
\* is left as it is and nothing is recorded for it.
C1_FirstMatchingRule ==
  \A v \in Visited :
     LET first == FirstInOrder(v.loop)
     IN /\ v.rule = first
        /\ first # "none" =>
             /\ v.recorded
             /\ v.sub = RuleSub(first, <<>>, v.loop).s
        /\ first = "none" => ~v.recorded /\ v.sub = v.loop

\* A visited loop that three rules match, rewritten by the first of them.
C1_Witness ==
  \E v \in Visited :
     /\ Cardinality(Matching(v.loop)) >= 3
     /\ v.rule = "CondToSeqNegRule"
     /\ v.recorded
     /\ v.sub # RuleSub("NestedDoWhileRule", <<>>, v.loop).s

----------------------------------------------------------------------------
(* C2: scenario S5.                                                        *)

\* while(true){ S1; if(c){ T; break; } else { E; break; } }
S5_Input ==
  Scenario(<<ExprStmt(<<1, 0>>),
             CreateIf(Guard(2), Blk(<<ExprStmt(<<2, 1>>), BreakStmt>>),
                      Blk(<<ExprStmt(<<2, 2>>), BreakStmt>>))>>)

\* S1; if(c){ T; } else { E; }
S5_Expected ==
  Blk(<<ExprStmt(<<1, 0>>),
        CreateIf(Guard(2), Blk(<<ExprStmt(<<2, 1>>)>>),
                 Blk(<<ExprStmt(<<2, 2>>)>>))>>)

\* C2: once the loop fixpoint has stabilised on the input of S5, the AST is
\* S1; if(c){ T; } else { E; }: no loop and no break are left.
C2_S5_LoopToSeq == (input = S5_Input /\ pc = "fin") => ast = S5_Expected

----------------------------------------------------------------------------
(* C3: no dangling while(true).                                            *)

\* The number of break statements of s that belong to the loop around s.
RECURSIVE OwnBreaks(_)
OwnBreaks(s) ==
  CASE s.k = "break" -> 1
    [] s.k \in {"while", "do"} -> 0
    [] OTHER -> Sum([i \in 1..Len(Children(s)) |-> OwnBreaks(Children(s)[i])])

\* A while(true) loop with exactly one break of its own, carried by an
\* if (C) { break; } that is statement i of the body.
UniqueBreakAt(loop, i) ==
  /\ IsTrueLoop(loop)
  /\ OwnBreaks(loop.b) = 1
  /\ i \in 1..Len(loop.b.ss)
  /\ IsCompBreakIf(loop.b.ss[i])

Dangling(loop) == \E i \in 1..Len(loop.b.ss) : UniqueBreakAt(loop, i)

DanglingAtEdge(loop) ==
  UniqueBreakAt(loop, 1) \/ UniqueBreakAt(loop, Len(loop.b.ss))

\* C3 as claimed: once the loop fixpoint has stabilised, no while(true) loop
\* whose only break is carried by an if (C) { break; }, at whatever position
\* of the body, is left in the AST.
C3_NoDanglingAnywhere ==
  pc = "fin" => \A l \in LoopsOf(ast) : ~Dangling(l)

\* C3 as amended: a rule fires on every visited while(true) loop whose only
\* break is carried by an if (C) { break; } at the front or at the tail of
\* the body, and once the loop fixpoint has stabilised no such loop is left.
C3_NoDanglingAtEdge ==
  /\ \A v \in Visited : DanglingAtEdge(v.loop) => v.rule # "none" /\ v.recorded
  /\ pc = "fin" => \A l \in LoopsOf(ast) : ~DanglingAtEdge(l)

\* The loop fixpoint has stabilised on an input loop of two or more
\* statements whose only break sat in an if (C) { break; } at the tail, and
\* no while(true) loop is left.
C3_Witness ==
  /\ pc = "fin"
  /\ LET l == input.ss[1]
     IN Len(l.b.ss) >= 2 /\ UniqueBreakAt(l, Len(l.b.ss))
  /\ \A l \in LoopsOf(ast) : ~IsTrueLoop(l)

----------------------------------------------------------------------------
(* C4: the loop fixpoint terminates.                                       *)

\* The positions of hist at which LoopRefine ran and reported a change.
Rewrites ==
  {i \in 1..Len(hist) : hist[i] = <<"loop", "LoopRefine", TRUE>>}

\* C4: under fair scheduling of the driver, a run that has entered the loop
\* phase leaves it: while (loop.run(module)) exits to the final phase (or
\* the process stops in the undefined cast of LoopToSeq); no sequence of
\* rewrites goes on forever.
C4_LoopPhaseHalts == (pc = "loop") ~> (pc \in {"fin", "abort"})

\* The loop phase has exited after two or more passes of LoopRefine that
\* each rewrote a loop.
C4_Witness == pc = "fin" /\ Cardinality(Rewrites) >= 2

----------------------------------------------------------------------------
(* C11: when NestedDoWhileRule matches.                                    *)

\* The number of ifs whose then-arm directly contains a break, among a
\* statement and its descendants at any depth.
RECURSIVE BreakIfCount(_)
BreakIfCount(s) ==
  (IF IsBreakIf(s) THEN 1 ELSE 0)
    + Sum([i \in 1..Len(Children(s)) |-> BreakIfCount(Children(s)[i])])

\* C11: on every visited while(true) loop, NestedDoWhileRule matches exactly
\* when one single if with a break directly in its then-arm occurs anywhere
\* in the body and that if is the last statement of the body.
C11_NestedDoWhileMatch ==
  \A v \in Visited :
     IsTrueLoop(v.loop) =>
       (NestedDoWhileRuleMatch(v.loop)
          <=> /\ BreakIfCount(v.loop.b) = 1
              /\ Len(v.loop.b.ss) > 0
              /\ IsBreakIf(v.loop.b.ss[Len(v.loop.b.ss)]))

\* A visited loop whose last statement is such an if, with a second one
\* elsewhere in the body, on which the rule did not match.
C11_Witness ==
  \E v \in Visited :
     /\ IsTrueLoop(v.loop)
     /\ Len(v.loop.b.ss) > 0
     /\ IsBreakIf(v.loop.b.ss[Len(v.loop.b.ss)])
     /\ BreakIfCount(v.loop.b) >= 2
     /\ ~NestedDoWhileRuleMatch(v.loop)
     /\ v.rule # "NestedDoWhileRule"

----------------------------------------------------------------------------
(* C12: breaks stay inside loops.                                          *)

\* C12: every break statement of the AST is enclosed by a while or do-while
\* loop, in every state of a run whose input has all its breaks inside the
\* loop.
C12_BreaksEnclosed == OwnBreaks(ast) = 0

----------------------------------------------------------------------------
(* C13: rewrites do not retarget breaks.                                   *)

\* The number of break statements among a statement and its descendants.
RECURSIVE Breaks(_)
Breaks(s) ==
  (IF s.k = "break" THEN 1 ELSE 0)
    + Sum([i \in 1..Len(Children(s)) |-> Breaks(Children(s)[i])])

\* The breaks of the substitution of a visit that come from the rewritten
\* loop itself: all its breaks but those of the loops nested in the loop,
\* which no rule touches.
Surviving(v) == Breaks(v.sub) - (Breaks(v.loop.b) - OwnBreaks(v.loop.b))

\* The breaks of the substitution that transfer control to the point right
\* after it.
Exiting(v) == IF v.sub.k \in {"while", "do"} THEN OwnBreaks(v.sub.b) ELSE 0

\* C13: in every rewrite, each break of the rewritten loop that survives
\* exits the statement that replaces the loop; in particular no break of
\* the prefix or of the else-arm ends up exiting only the inner do-while
\* that NestedDoWhileRule builds.
C13_BreaksKeepTarget ==
  \A v \in Visited :
     /\ v.recorded => Exiting(v) = Surviving(v)
     /\ v.rule = "NestedDoWhileRule" => OwnBreaks(v.sub.b.ss[1].b) = 0

----------------------------------------------------------------------------
(* Execution of an AST, to compare a loop with its substitution.  The      *)
(* outcome of the k-th evaluation of a comparison is the k-th boolean of   *)
(* an oracle o.  An execution state is [tr, o, sig]: the trace of the      *)
(* statements executed and of the comparisons evaluated, the rest of the   *)
(* oracle, and sig: "run", "brk" after a break that has not yet left its   *)
(* loop, "out" when the oracle or the trace bound is used up.              *)

MaxOracle == 3
MaxTrace == 8

RECURSIVE Oracles(_)
Oracles(n) ==
  IF n = 0 THEN {<<>>}
  ELSE {Append(o, b) : o \in Oracles(n - 1), b \in BOOLEAN}

\* The value of comparison x, taken from the oracle.
EvalCmp(x, st) ==
  IF st.o = <<>> THEN [v |-> FALSE, st |-> [st EXCEPT !.sig = "out"]]
  ELSE [v |-> Head(st.o),
        st |-> [st EXCEPT !.o = Tail(st.o),
                          !.tr = Append(st.tr, <<"cond", x.v, Head(st.o)>>)]]

Negated(r) == [v |-> ~r.v, st |-> r.st]

RECURSIVE Eval(_, _)
Eval(x, st) ==
  CASE x.k = "lit" -> [v |-> x = TrueLit, st |-> st]
    [] x.k = "eq" -> EvalCmp(x, st)
    [] x.k = "ne" -> Negated(EvalCmp(x, st))
    [] x.k = "lnot" -> Negated(Eval(x.x, st))

RECURSIVE Exec(_, _)
RECURSIVE ExecSeq(_, _)
RECURSIVE ExecWhile(_, _)
RECURSIVE ExecDo(_, _)

ExecSeq(ss, st) ==
  IF ss = <<>> \/ st.sig # "run" THEN st
  ELSE Only({ExecSeq(Tail(ss), n) : n \in {Exec(Head(ss), st)}})

\* The arm of an if chosen by the evaluated guard c.
ExecArm(s, c) ==
  IF c.st.sig # "run" THEN c.st
  ELSE IF c.v THEN Exec(s.t, c.st)
  ELSE IF s.e = NoStmt THEN c.st
  ELSE Exec(s.e, c.st)

\* After the body of a loop ran to b: a break leaves the loop.
AfterBody(s, b, again) ==
  CASE b.sig = "brk" -> [b EXCEPT !.sig = "run"]
    [] b.sig = "out" -> b
    [] OTHER -> IF again = "while" THEN ExecWhile(s, b) ELSE
                Only({IF c.st.sig = "run" /\ c.v THEN ExecDo(s, c.st)
                      ELSE c.st : c \in {Eval(s.c, b)}})

ExecWhile(s, st) ==
  Only({IF c.st.sig = "run" /\ c.v
        THEN Only({AfterBody(s, b, "while") : b \in {Exec(s.b, c.st)}})
        ELSE c.st : c \in {Eval(s.c, st)}})

ExecDo(s, st) == Only({AfterBody(s, b, "do") : b \in {Exec(s.b, st)}})

Exec(s, st) ==
  CASE st.sig # "run" -> st
    [] Len(st.tr) >= MaxTrace -> [st EXCEPT !.sig = "out"]
    [] s.k = "expr" -> [st EXCEPT !.tr = Append(st.tr, <<"stmt", s.n>>)]
    [] s.k = "break" -> [st EXCEPT !.sig = "brk"]
    [] s.k = "comp" -> ExecSeq(s.ss, st)
    [] s.k = "if" -> Only({ExecArm(s, c) : c \in {Eval(s.c, st)}})
    [] s.k = "while" -> ExecWhile(s, st)
    [] s.k = "do" -> ExecDo(s, st)
    [] OTHER -> st

\* The execution of statement s under oracle o.
Run(s, o) == Exec(s, [tr |-> <<>>, o |-> o, sig |-> "run"])

----------------------------------------------------------------------------
(* C14: the do-while rewrites and the else-arm.                            *)

\* The loop ends with if (C) { break; } else E, E present and not empty.
TailBreakElse(loop) ==
  /\ IsTrueLoop(loop)
  /\ Len(loop.b.ss) > 0
  /\ LET back == loop.b.ss[Len(loop.b.ss)]
     IN /\ back.k = "if"
        /\ comp_break(back.t)
        /\ back.e # NoStmt
        /\ back.e # CreateCompoundStmt(<<>>)

\* C14: where DoWhileRule or NestedDoWhileRule rewrote a loop that ends with
\* if (C) { break; } else E, the substitution executes as the loop did: the
\* same statements and the same evaluations of guards, in the same order,
\* under every oracle.
C14_DoWhileKeepsTrace ==
  \A v \in Visited :
     (v.rule \in {"DoWhileRule", "NestedDoWhileRule"} /\ TailBreakElse(v.loop))
       => \A o \in Oracles(MaxOracle) : Run(v.sub, o) = Run(v.loop, o)

----------------------------------------------------------------------------
(* C15: the substitution of CondToSeqRule.                                 *)

\* The loop while (C) T followed by the statements of E, for a loop whose
\* body is the single statement if (C) T else E.
CondToSeqSequence(loop) ==
  LET ifstmt == loop.b.ss[1]
  IN <<CreateWhile(ifstmt.c, ifstmt.t)>> \o Splice(ifstmt.e)

\* C15 as claimed: the substitution of CondToSeqRule is the sequence
\* while (C) T; E with nothing around it.
C15_SequenceAlone ==
  \A v \in Visited :
     v.rule = "CondToSeqRule"
       => v.sub = CreateCompoundStmt(CondToSeqSequence(v.loop))

\* C15 as amended: the substitution of CondToSeqRule is the sequence
\* while (C) T; E inside a loop that keeps the guard of the rewritten loop,
\* with C reused unnegated, T as the body of the inner loop and the
\* statements of E after it in their order; it executes as the loop did.
C15_SequenceInLoop ==
  \A v \in Visited :
     v.rule = "CondToSeqRule"
       => /\ v.sub.k = "while"
          /\ v.sub.c = v.loop.c
          /\ v.sub.b.k = "comp"
          /\ v.sub.b.ss = CondToSeqSequence(v.loop)
          /\ \A o \in Oracles(MaxOracle) : Run(v.sub, o) = Run(v.loop, o)

\* CondToSeqRule rewrote a loop whose else-arm holds a statement and a break.
C15_Witness ==
  \E v \in Visited :
     /\ v.rule = "CondToSeqRule"
     /\ v.recorded
     /\ Len(Splice(v.loop.b.ss[1].e)) >= 1
     /\ has_break(v.loop.b.ss[1].e)

----------------------------------------------------------------------------
(* C16: WhileRule.                                                         *)

\* The expression statements of a statement, in source order.
RECURSIVE ExprsOf(_)
ExprsOf(s) ==
  IF s.k = "expr" THEN <<s>>
  ELSE Flatten([i \in 1..Len(Children(s)) |-> ExprsOf(Children(s)[i])])

\* C16: WhileRule matches a visited loop only when the first statement of
\* its body is an if whose then-arm is exactly { break; }; where it rewrote
\* the loop, the substitution is while (!C) { E; rest }, with E first when
\* the if has an else-arm and then every other statement of the body in
\* its order, and it holds the statements of the loop, each once and in
\* the same order.
C16_WhileRule ==
  \A v \in Visited :
     /\ WhileRuleMatch(v.loop)
          => /\ Len(v.loop.b.ss) > 0
             /\ v.loop.b.ss[1].k = "if"
             /\ v.loop.b.ss[1].t = CreateCompoundStmt(<<BreakStmt>>)
     /\ v.rule = "WhileRule"
          => /\ v.sub.k = "while"
             /\ v.sub.c = CreateLNot(v.loop.b.ss[1].c)
             /\ v.sub.b.k = "comp"
             /\ v.sub.b.ss =
                  (IF v.loop.b.ss[1].e # NoStmt THEN <<v.loop.b.ss[1].e>>
                   ELSE <<>>) \o Tail(v.loop.b.ss)
             /\ ExprsOf(v.sub) = ExprsOf(v.loop)

\* WhileRule rewrote a loop whose first statement has an else-arm and is
\* followed by further statements.
C16_Witness ==
  \E v \in Visited :
     /\ v.rule = "WhileRule"
     /\ v.recorded
     /\ v.loop.b.ss[1].e # NoStmt
     /\ Len(v.loop.b.ss) >= 2

-----------------------------------------------------------------------------
(* The build script (src/unnamed/part_000).  script holds the shell state  *)
(* of one run: the position in main, the positional parameters, $?, the    *)
(* script's variables, whether the build directory was created, the steps  *)
(* that ran with their statuses, and the lines echoed.                     *)

\* Largest number of words on the command line.
MaxArgs == 2

pipeline == <<pc, idx, changed, ast, prov, visits, hist, input, output>>

\* The words a command line is made of: the six options, a word that is no
\* option, versions GetLLVMVersion knows and one it does not, and a path.
Words ==
  {"--prefix", "--llvm-version", "--build-dir", "--debug",
   "--extra-cmake-args", "--use-host-compiler", "--help",
   "3.9", "8.0", "9.0", "out"}

RECURSIVE ArgLists(_)
ArgLists(n) ==
  IF n = 0 THEN {<<>>}
  ELSE ArgLists(n - 1)
         \cup {Append(a, w) : a \in {b \in ArgLists(n - 1) : Len(b) = n - 1},
                              w \in Words}

\* "${2}": the second positional parameter, empty where there is none.
Arg2(args) == IF Len(args) >= 2 THEN args[2] ELSE ""

\* shift: drops the first positional parameter, and fails leaving them alone
\* where there is none.
Shift(args) == IF args = <<>> THEN <<>> ELSE Tail(args)

\* os.path.abspath of a relative path: the path below the current directory.
AbsPath(p) == IF p = "" THEN <<"CURR_DIR">> ELSE <<"CURR_DIR", p>>

Echo(sc, line) == [sc EXCEPT !.out = Append(@, line)]

HostCompilerVersions == {"3.5", "3.6", "3.7", "3.8", "3.9", "4.0"}

LLVMNames ==
  ("3.5" :> "llvm35") @@ ("3.6" :> "llvm36") @@ ("3.7" :> "llvm37") @@
  ("3.8" :> "llvm38") @@ ("3.9" :> "llvm39") @@ ("4.0" :> "llvm40") @@
  ("5.0" :> "llvm50") @@ ("6.0" :> "llvm60") @@ ("7.0" :> "llvm70") @@
  ("8.0" :> "llvm80")

\* GetLLVMVersion "${1}": the shell state it leaves, with its return status
\* in $?.
GetLLVMVersion(v, sc) ==
  IF v \in HostCompilerVersions
    THEN [sc EXCEPT !.LLVM_VERSION = LLVMNames[v],
                    !.USE_HOST_COMPILER = 1,
                    !.status = 0]
  ELSE IF v \in DOMAIN LLVMNames
    THEN [sc EXCEPT !.LLVM_VERSION = LLVMNames[v], !.status = 0]
  ELSE [Echo(sc, "[x] Unknown LLVM version") EXCEPT !.status = 1]

\* return n from main.
Return(sc, n) == [sc EXCEPT !.at = "returned", !.status = n]

\* The trailing "shift # past argument or value" of the loop body.
NextOption(sc) == [sc EXCEPT !.args = Shift(@), !.status = 0]

\* One round of the option loop of main on the shell state sc.
ParseOne(sc) ==
  LET key == sc.args[1]
      val == Arg2(sc.args)
      past == [sc EXCEPT !.args = Shift(@)]
  IN  CASE key = "--prefix" ->
             NextOption(Echo([past EXCEPT !.INSTALL_DIR = AbsPath(val)],
                             "[+] New install directory"))
        [] key = "--llvm-version" ->
             IF GetLLVMVersion(val, sc).status # 0
               THEN Return(GetLLVMVersion(val, sc), 1)
               ELSE NextOption(Echo(GetLLVMVersion(val, past),
                                    "[+] New LLVM version"))
        [] key = "--build-dir" ->
             NextOption(Echo([past EXCEPT !.BUILD_DIR = AbsPath(val)],
                             "[+] New build directory"))
        [] key = "--debug" ->
             NextOption(Echo([sc EXCEPT !.BUILD_FLAGS =
                                   Append(@, "-DCMAKE_BUILD_TYPE=Debug")],
                             "[+] Enabling a debug build"))
        [] key = "--extra-cmake-args" ->
             NextOption(Echo([past EXCEPT !.BUILD_FLAGS = Append(@, val)],
                             "[+] Will supply additional arguments"))
        [] key = "--use-host-compiler" ->
             NextOption(Echo([sc EXCEPT !.USE_HOST_COMPILER = 1],
                             "[+] Forcing use of host compiler"))
        [] OTHER -> Return(Echo(sc, "[x] Unknown option"), 1)

\* The shell state main starts in on the command line args.
ScriptStart(args) ==
  [at |-> "parse", args |-> args, status |-> 0,
   INSTALL_DIR |-> <<"/usr/local">>,
   LLVM_VERSION |-> "llvm40",
   BUILD_DIR |-> <<"CURR_DIR", "rellic-build">>,
   BUILD_FLAGS |-> <<>>,
   USE_HOST_COMPILER |-> 0,
   made |-> FALSE, steps |-> <<>>, out |-> <<>>]

BuildInit ==
  /\ pc = "ast"
  /\ idx = 1
  /\ changed = FALSE
  /\ ast = NoStmt
  /\ prov = <<>>
  /\ visits = <<>>
  /\ hist = <<>>
  /\ input = NoStmt
  /\ output = NoStmt
  /\ script \in {ScriptStart(a) : a \in ArgLists(MaxArgs)}

\* while [[ $# -gt 0 ]] ; do case $key in ... esac ; shift ; done
ParseOption ==
  /\ script.at = "parse"
  /\ script.args # <<>>
  /\ script' = ParseOne(script)
  /\ UNCHANGED pipeline

\* mkdir -p "${BUILD_DIR}" ; cd "${BUILD_DIR}" || exit 1
MakeBuildDir ==
  /\ script.at = "parse"
  /\ script.args = <<>>
  /\ \E ok \in BOOLEAN :
        script' = IF ok
                    THEN [script EXCEPT !.at = "download", !.made = TRUE,
                                        !.status = 0]
                    ELSE [script EXCEPT !.at = "exited", !.status = 1]
  /\ UNCHANGED pipeline

\* A step of (DownloadLibraries && Configure && Build) has ended with the
\* status st: the next step runs after a zero status, and the subshell ends
\* with the status of the last step it ran.
Step(name, st, then) ==
  script' = [script EXCEPT !.steps = Append(@, [name |-> name, status |-> st]),
                           !.status = st,
                           !.at = IF st = 0 THEN then ELSE "failed"]

\* DownloadLibraries returns 0 or 1.
DownloadLibraries ==
  /\ script.at = "download"
  /\ \E st \in {0, 1} : Step("DownloadLibraries", st, "configure")
  /\ UNCHANGED pipeline

\* Configure returns the status of cmake.
Configure ==
  /\ script.at = "configure"
  /\ \E st \in {0, 1} : Step("Configure", st, "build")
  /\ UNCHANGED pipeline

\* Build returns the status of make.
Build ==
  /\ script.at = "build"
  /\ \E st \in {0, 2} : Step("Build", st, "succeeded")
  /\ UNCHANGED pipeline

\* if ! (...) ; then echo "[x] Build aborted." ; fi  where a step failed:
\* $? is the status of the echo.
BuildAborted ==
  /\ script.at = "failed"
  /\ script' = [Echo(script, "[x] Build aborted.") EXCEPT !.at = "fi",
                                                         !.status = 0]
  /\ UNCHANGED pipeline

\* The same where every step succeeded: no branch of the if runs and $? is 0.
BuildSucceeded ==
  /\ script.at = "succeeded"
  /\ script' = [script EXCEPT !.at = "fi", !.status = 0]
  /\ UNCHANGED pipeline

\* return $?
MainReturn ==
  /\ script.at = "fi"
  /\ script' = Return(script, script.status)
  /\ UNCHANGED pipeline

\* main "$@" ; exit $?
ScriptExit ==
  /\ script.at = "returned"
  /\ script' = [script EXCEPT !.at = "exited"]
  /\ UNCHANGED pipeline

BuildNext ==
  \/ ParseOption
  \/ MakeBuildDir
  \/ DownloadLibraries
  \/ Configure
  \/ Build
  \/ BuildAborted
  \/ BuildSucceeded
  \/ MainReturn
  \/ ScriptExit

BuildSpec == BuildInit /\ [][BuildNext]_vars

Echoed(line) == \E i \in 1..Len(script.out) : script.out[i] = line

StepFailed == \E i \in 1..Len(script.steps) : script.steps[i].status # 0

AllStepsSucceeded ==
  /\ Len(script.steps) = 3
  /\ \A i \in 1..3 : script.steps[i].status = 0

Rejected == Echoed("[x] Unknown option") \/ Echoed("[x] Unknown LLVM version")

\* C17: main returns a non-zero status, after printing "Build aborted.",
\* whenever one of DownloadLibraries, Configure and Build failed, and zero
\* only when all three succeeded; an unknown option or an unknown LLVM
\* version makes it return 1 before the build directory is created or any
\* step is run.
C17_MainStatus ==
  script.at = "returned" =>
    /\ StepFailed => script.status # 0 /\ Echoed("[x] Build aborted.")
    /\ script.status = 0 => AllStepsSucceeded
    /\ Rejected => script.status = 1 /\ ~script.made /\ script.steps = <<>>

\* The part of C17 about rejected command lines, which the script keeps.
C17_RejectedEarly ==
  script.at = "returned" /\ Rejected
    => script.status = 1 /\ ~script.made /\ script.steps = <<>>

C17_Witness == script.at = "returned" /\ StepFailed

-----------------------------------------------------------------------------
(* C5: the measure of termination.                                         *)

\* The number of nodes of an expression.
RECURSIVE ExprNodes(_)
ExprNodes(e) == IF e.k = "lnot" THEN 1 + ExprNodes(e.x) ELSE 1

\* The four counts of a statement and its descendants: the if statements,
\* the break statements, the break statements that are inside no loop of
\* the statement, and the AST nodes (the statements and the nodes of their
\* conditions).
RECURSIVE Counts(_)

Add4(a, b) == <<a[1] + b[1], a[2] + b[2], a[3] + b[3], a[4] + b[4]>>

\* The counts r of the children of s, with s itself counted.
WithSelf(s, r) ==
  <<r[1] + (IF s.k = "if" THEN 1 ELSE 0),
    r[2],
    IF s.k \in {"while", "do"} THEN 0 ELSE r[3],
    r[4] + 1 + (IF s.k \in {"if", "while", "do"} THEN ExprNodes(s.c) ELSE 0)>>

RECURSIVE SumCounts(_, _)
SumCounts(cs, acc) ==
  IF cs = <<>> THEN acc
  ELSE SumCounts(Tail(cs), Add4(acc, Counts(Head(cs))))

Counts(s) ==
  IF s.k = "break" THEN <<0, 1, 1, 1>>
  ELSE WithSelf(s, SumCounts(Children(s), <<0, 0, 0, 0>>))

\* The triple of the counts r: ifs, breaks inside loops, nodes.
Triple(r) == <<r[1], r[2] - r[3], r[4]>>

Measure(s) == Triple(Counts(s))

\* No component of m is above that of n, and one is below it.
ComponentwiseBelow(m, n) ==
  /\ \A i \in 1..3 : m[i] <= n[i]
  /\ \E i \in 1..3 : m[i] < n[i]

\* m is before n in the lexicographic order of triples.
LexBelow(m, n) ==
  \/ m[1] < n[1]
  \/ m[1] = n[1] /\ m[2] < n[2]
  \/ m[1] = n[1] /\ m[2] = n[2] /\ m[3] < n[3]

\* C5: on every rewrite of a loop by a rule, no component of the triple
\* (ifs, breaks inside loops, AST nodes) increases from the loop to its
\* substitution, and one of them decreases.
C5_MeasureComponentwise ==
  \A v \in Visited :
     v.recorded => ComponentwiseBelow(Measure(v.sub), Measure(v.loop))

\* m is before n in the lexicographic order, and its first two components
\* are not above those of n.
Decreases(m, n) == LexBelow(m, n) /\ m[1] <= n[1] /\ m[2] <= n[2]

\* C5, amended: on every rewrite of a loop by a rule the triple decreases
\* in the lexicographic order, and neither the number of ifs nor the number
\* of breaks inside loops increases.
C5_MeasureLexicographic ==
  \A v \in Visited :
     v.recorded => Decreases(Measure(v.sub), Measure(v.loop))

\* More nodes in m than in n, and fewer ifs.
MoreNodesFewerIfs(m, n) == m[3] > n[3] /\ m[1] < n[1]

\* NestedDoWhileRule has rewritten a loop into a statement of more nodes.
C5_Witness ==
  \E v \in Visited :
     /\ v.recorded
     /\ v.rule = "NestedDoWhileRule"
     /\ MoreNodesFewerIfs(Measure(v.sub), Measure(v.loop))

-----------------------------------------------------------------------------
(* C6, C7: scenarios S1 and S2.                                            *)

\* while(true){ if(x==0){ break; } else { y = y+1; } }
S1_Input ==
  Scenario(<<CreateIf(Guard(1), Blk(<<BreakStmt>>),
                      Blk(<<ExprStmt(<<1, 2>>)>>))>>)

\* while(true){ y = y+1; if(x==0) break; }
S2_Input ==
  Scenario(<<ExprStmt(<<1, 0>>),
             CreateIf(Guard(2), Blk(<<BreakStmt>>), NoStmt)>>)

\* while(x != 0){ y = y+1; }
S1_Expected ==
  Blk(<<CreateWhile(NeZero(Guard(1)), Blk(<<ExprStmt(<<1, 2>>)>>))>>)

\* do { y = y+1; } while(x != 0);
S2_Expected ==
  Blk(<<CreateDo(NeZero(Guard(2)), Blk(<<ExprStmt(<<1, 0>>)>>))>>)

-----------------------------------------------------------------------------
(* C8: provenance of derived guards.                                       *)

\* The rules that negate a guard.
Negating == {"WhileRule", "DoWhileRule", "NestedDoWhileRule", "CondToSeqNegRule"}

\* The guard a negating rule has derived, in the substitution of a visit.
DerivedGuard(v) ==
  IF v.rule \in {"WhileRule", "DoWhileRule"} THEN v.sub.c
  ELSE v.sub.b.ss[1].c

\* Every entry of the map old is an entry of the map new.
Keeps(old, new) ==
  \A g \in DOMAIN old : g \in DOMAIN new /\ new[g] = old[g]

\* C8: the guard !C a rule derives from C has C's use-provenance in the map
\* once the pass has run; every loop guard of the AST derived from a guard with
\* use-provenance has use-provenance; and no step removes or overwrites an
\* entry of the map.
C8_ProvenanceInherited ==
  /\ [](\A v \in Visited :
          v.recorded /\ v.rule \in Negating =>
            /\ DerivedGuard(v).k = "lnot"
            /\ DerivedGuard(v).x \in DOMAIN prov =>
                 /\ DerivedGuard(v) \in DOMAIN prov
                 /\ prov[DerivedGuard(v)] = prov[DerivedGuard(v).x])
  /\ [](\A l \in LoopsOf(ast) :
          SourceOf(l.c) \in DOMAIN prov => l.c \in DOMAIN prov)
  /\ [][Keeps(prov, prov')]_vars

\* A loop of the AST is guarded by a negation that WhileRule derived and
\* that has the use-provenance of its operand.
C8_Witness ==
  \E v \in Visited :
     /\ v.recorded
     /\ v.rule = "WhileRule"
     /\ v.sub.c.x \in DOMAIN prov
     /\ v.sub.c \in DOMAIN prov
     /\ v.sub \in LoopsOf(ast)

-----------------------------------------------------------------------------
(* C9: order of the phases.                                                *)

PhaseRank == [ast |-> 1, cbr |-> 2, loop |-> 3, fin |-> 4, print |-> 5,
              done |-> 6, abort |-> 3]

\* The names of the passes phase p has run, in the order of their runs.
RECURSIVE PassesOf(_, _)
PassesOf(p, h) ==
  IF h = <<>> THEN <<>>
  ELSE (IF Head(h)[1] = p THEN <<Head(h)[2]>> ELSE <<>>) \o PassesOf(p, Tail(h))

IsPrefix(s, t) == Len(s) <= Len(t) /\ s = SubSeq(t, 1, Len(s))

\* The runs of hist in phase p.
RunsIn(p) == {i \in 1..Len(hist) : hist[i][1] = p}

\* The last full iteration of the CBR phase before run i reported no change.
CbrStableBefore(i) ==
  \E f \in 1..i :
     /\ f > Len(Managers.cbr)
     /\ \A k \in 1..(f - 1) : hist[k][1] \in {"ast", "cbr"}
     /\ \A k \in (f - Len(Managers.cbr))..(f - 1) :
           hist[k][1] = "cbr" /\ hist[k][3] = FALSE
     /\ \A k \in f..i : hist[k][1] \notin {"ast", "cbr"}

\* C9: the phases run in the order structuralize + DeadStmtElim once, CBR
\* fixpoint, loop fixpoint, final phase once, printing: no loop-refinement
\* pass runs before the CBR fixpoint has stabilised, no cond-based
\* refinement runs after the loop phase has started, the final phase is not
\* repeated, and the AST is printed only after the final phase is over.
C9_PhaseOrder ==
  /\ \A i, j \in 1..Len(hist) :
        i < j => PhaseRank[hist[i][1]] <= PhaseRank[hist[j][1]]
  /\ \A i \in 1..Len(hist) : PhaseRank[hist[i][1]] <= PhaseRank[pc]
  /\ IsPrefix(PassesOf("ast", hist), Managers.ast)
  /\ pc # "ast" => PassesOf("ast", hist) = Managers.ast
  /\ \A i \in 1..Len(hist) :
        hist[i][2] = "LoopRefine" => hist[i][1] = "loop" /\ CbrStableBefore(i)
  /\ \A i \in 1..Len(hist) :
        hist[i][2] = "CondBasedRefine" =>
          /\ hist[i][1] = "cbr"
          /\ \A k \in 1..i : hist[k][1] # "loop"
  /\ IsPrefix(PassesOf("fin", hist), Managers.fin)
  /\ output # NoStmt \/ pc \in {"print", "done"} =>
        PassesOf("fin", hist) = Managers.fin

\* A run has printed the AST after CBR and loop phases that each ran more
\* than one iteration.
C9_Witness ==
  /\ pc = "done"
  /\ output # NoStmt
  /\ Cardinality(RunsIn("cbr")) > Len(Managers.cbr)
  /\ Cardinality(RunsIn("loop")) > Len(Managers.loop)

-----------------------------------------------------------------------------
(* C10: iterations of a fixpoint phase.                                    *)

\* The change reports of the passes phase p has run, in the order of their
\* runs.
RECURSIVE ChangesOf(_, _)
ChangesOf(p, h) ==
  IF h = <<>> THEN <<>>
  ELSE (IF Head(h)[1] = p THEN <<Head(h)[3]>> ELSE <<>>) \o ChangesOf(p, Tail(h))

\* Iteration j of a phase of n passes with the change reports chs reported
\* a change.
IterationChanged(chs, n, j) == \E k \in ((j - 1) * n + 1)..(j * n) : chs[k]

\* The runs of the phase p of n passes up to now: names the passes that ran,
\* chs what they reported.
IterationsInOrder(p, n, names, chs) ==
  /\ \A k \in 1..Len(names) : names[k] = Managers[p][((k - 1) % n) + 1]
  /\ \A j \in 1..(Len(names) \div n) :
        (j * n < Len(names) \/ (pc = p /\ idx = 1)) =>
           IterationChanged(chs, n, j)
  /\ PhaseRank[pc] > PhaseRank[p] =>
        /\ Len(names) > 0
        /\ Len(names) % n = 0
        /\ \A j \in 1..(Len(names) \div n) :
              IterationChanged(chs, n, j) <=> j < Len(names) \div n

\* The AST the pass name makes of the AST a.
PassResult(name, a) ==
  CASE name = "DeadStmtElim" -> DeadStmtElim(a)
    [] name = "Z3CondSimplify" -> Z3CondSimplify(a)
    [] name = "NestedCondProp" -> NestedCondProp(a)
    [] name = "NestedScopeCombiner" -> NestedScopeCombiner(a)
    [] name = "CondBasedRefine" -> CondBasedRefine(a)
    [] name = "StmtCombine" -> StmtCombine(a)
    [] name = "LoopRefine" -> LoopRefineRun(a, prov).s

\* C10: in a fixpoint phase the passes run in their listed order, iteration
\* after iteration, each on the AST the pass before it left; an iteration
\* that reported a change is followed by another one, and the phase is left
\* right after the first iteration that reported none.
C10_FixpointIterations ==
  /\ [](\A p \in {"cbr", "loop"} :
          IterationsInOrder(p, Len(Managers[p]),
                            PassesOf(p, hist), ChangesOf(p, hist)))
  /\ [][Len(hist') > Len(hist) /\ hist # <<>> =>
          /\ ast' = PassResult(hist'[Len(hist')][2], ast)
          /\ hist'[Len(hist')][3] = (ast' # ast)]_vars

\* The loop phase has been left after three iterations.
C10_Witness ==
  /\ pc = "fin"
  /\ Len(PassesOf("loop", hist)) = 3 * Len(Managers.loop)

====
